---- MODULE Spec2Model ----
(***************************************************************************)
(* Model of src/dashboard.py: one Streamlit session of the port-authority  *)
(* inspection dashboard.  Every user interaction (and the first page load) *)
(* re-runs main() from the memoized source tables; an action of this       *)
(* module is one interaction together with the whole rendering pass it     *)
(* triggers.                                                               *)
(*                                                                         *)
(* Text is modelled character by character: a string is a sequence of      *)
(* one-character strings, so that lower-casing, substring containment,     *)
(* regular-expression search, keyword extraction and CSV quoting are       *)
(* computed the way the program computes them.                             *)
(***************************************************************************)
EXTENDS Integers, Sequences, FiniteSets, TLC

\* ------------------------------------------------------------------ text

\* The characters of the model, in code-point order (Python compares strings
\* by code point in sorted() and in list.sort()).
Alphabet ==
    << "\n", " ", "\"", ",", ".", "0", "1", "2", "3", "4", "5", "6", "7", "8", "9",
       "A", "B", "I", "K", "L", "N", "S", "V", "W",
       "a", "b", "i", "k", "l", "n", "s", "v", "w" >>

Code(c) == CHOOSE i \in 1..Len(Alphabet) : Alphabet[i] = c

\* str.lower() on one character.
LowerChar(c) ==
    CASE c = "A" -> "a" [] c = "B" -> "b" [] c = "I" -> "i" [] c = "K" -> "k"
      [] c = "L" -> "l" [] c = "N" -> "n" [] c = "S" -> "s" [] c = "V" -> "v"
      [] c = "W" -> "w" [] OTHER -> c

\* A sequence given as a function on 1..n, as a tuple.
Tuple(f) == f \o << >>

\* str.lower()
Lower(s) == Tuple([i \in 1..Len(s) |-> LowerChar(s[i])])

\* Python's `a in b` for strings: a occurs in b as a contiguous substring.
Contains(b, a) ==
    \E off \in 0..(Len(b) - Len(a)) : \A i \in 1..Len(a) : b[off + i] = a[i]

\* Python's string order: s < t by code point, a proper prefix first.
StrLess(s, t) ==
    \E k \in 1..(Len(t)) :
        /\ \A i \in 1..(k - 1) : i <= Len(s) /\ s[i] = t[i]
        /\ \/ Len(s) = k - 1
           \/ Len(s) >= k /\ Code(s[k]) < Code(t[k])

\* " ".join(parts)
RECURSIVE Join(_, _)
Join(parts, sep) ==
    IF parts = << >> THEN << >>
    ELSE IF Len(parts) = 1 THEN parts[1]
    ELSE parts[1] \o sep \o Join(Tail(parts), sep)

\* sorted(set(values)) for strings: the distinct values in ascending order.
RECURSIVE SortedStrings(_)
SortedStrings(S) ==
    IF S = {} THEN << >>
    ELSE LET m == CHOOSE x \in S : \A y \in S \ {x} : StrLess(x, y)
         IN  << m >> \o SortedStrings(S \ {m})

\* A missing cell (pandas NaN) and an unset value (Python None); neither is a
\* string of Alphabet characters.
NaN == << "<NaN>" >>
None == << "<None>" >>

\* ------------------------------------------------------------ data model

\* Column names of the two workbooks.
AuthorityColumns == << "Authority", "Date", "Phrase", "TF-IDF Score" >>
ShipColumns == << "Vessel Name", "Nature of deficiency" >>

HasColumn(table, name) == \E i \in 1..Len(table.cols) : table.cols[i] = name

\* One record of the authority workbook.  idx is the row's index label (the
\* RangeIndex read_excel assigns), which boolean-mask selection and nlargest
\* carry along and to_csv(index=False) drops.
AuthorityRecord(i, a, d, p, s) ==
    [idx |-> i, Authority |-> a, Date |-> d, Phrase |-> p, TF_IDF_Score |-> s]

\* One record of the ship workbook; either cell may be missing (NaN).
ShipRecord(i, v, t) == [idx |-> i, Vessel_Name |-> v, Nature_of_deficiency |-> t]

\* A loader's result when read_excel raised: None, with the st.error it showed.
Failed(message) == [ok |-> FALSE, cols |-> << >>, rows |-> << >>, shown |-> {message}]

\* --------------------------------------------------------------- loaders

\* The body of a loader: read_excel inside try/except.
ReadExcel(file, message) ==
    IF file.readable
    THEN [ok |-> TRUE, cols |-> file.cols, rows |-> file.rows, shown |-> {}]
    ELSE Failed(message)

\* A loader that reads the workbook on every call (no memoization).
UncachedCall(cache, file, message) ==
    [value |-> ReadExcel(file, message), cache |-> cache, reads |-> 1]

\* @st.cache_data around a loader without arguments: the first call runs the
\* body and stores what it returned (None too) with the elements it showed;
\* every later call returns the stored entry, replays its elements and does
\* not run the body.
CachedCall(cache, file, message) ==
    IF cache # << >>
    THEN [value |-> cache[1], cache |-> cache, reads |-> 0]
    ELSE LET r == ReadExcel(file, message)
         IN  [value |-> r, cache |-> << r >>, reads |-> 1]

load_authority_data(cache, file) ==
    CachedCall(cache, file, "Error loading authority data")

load_ship_data(cache, file) ==
    CachedCall(cache, file, "Error loading ship data")

\* ----------------------------------------------------------- filter layer

\* sorted(df["Authority"].unique())
Ports(df) == SortedStrings({df.rows[i].Authority : i \in 1..Len(df.rows)})

\* df[df["Authority"].str.contains(selected_port)]: containment for equality.
RECURSIVE AuthorityContains(_, _)
AuthorityContains(rows, selected_port) ==
    IF rows = << >> THEN << >>
    ELSE IF Contains(Head(rows).Authority, selected_port)
         THEN << Head(rows) >> \o AuthorityContains(Tail(rows), selected_port)
         ELSE AuthorityContains(Tail(rows), selected_port)

\* df[df["Authority"] == selected_port]: boolean-mask selection keeps the
\* rows whose mask is True, in the frame's order.
RECURSIVE AuthorityFilter(_, _)
AuthorityFilter(rows, selected_port) ==
    IF rows = << >> THEN << >>
    ELSE IF Head(rows).Authority = selected_port
         THEN << Head(rows) >> \o AuthorityFilter(Tail(rows), selected_port)
         ELSE AuthorityFilter(Tail(rows), selected_port)

\* Python's re.search(pat, s, re.IGNORECASE) for patterns over the model's
\* alphabet, whose only metacharacter is ".": it matches any one character
\* but a newline; every other character matches itself, ignoring case.
RegexSearch(pat, s) ==
    \E off \in 0..(Len(s) - Len(pat)) :
        \A i \in 1..Len(pat) :
            \/ pat[i] = "." /\ s[off + i] # "\n"
            \/ LowerChar(pat[i]) = LowerChar(s[off + i])

\* filtered_df[filtered_df['Phrase'].str.contains(search_term, case=False)]
\* (str.contains has regex=True by default).
RECURSIVE SearchFilter(_, _)
SearchFilter(rows, search_term) ==
    IF rows = << >> THEN << >>
    ELSE IF RegexSearch(search_term, Head(rows).Phrase)
         THEN << Head(rows) >> \o SearchFilter(Tail(rows), search_term)
         ELSE SearchFilter(Tail(rows), search_term)

\* -------------------------------------------------------- keyword matcher

\* sorted(ship_df['Vessel Name'].dropna().unique())
Ships(ship_df) ==
    SortedStrings({ship_df.rows[i].Vessel_Name : i \in 1..Len(ship_df.rows)} \ {NaN})

\* ship_df[ship_df['Vessel Name'] == selected_ship]['Nature of deficiency']
\*     .dropna().astype(str)
RECURSIVE PastDeficiencies(_, _)
PastDeficiencies(rows, selected_ship) ==
    IF rows = << >> THEN << >>
    ELSE IF /\ Head(rows).Vessel_Name = selected_ship
            /\ Head(rows).Nature_of_deficiency # NaN
         THEN << Head(rows).Nature_of_deficiency >>
                  \o PastDeficiencies(Tail(rows), selected_ship)
         ELSE PastDeficiencies(Tail(rows), selected_ship)

Nil == << "n", "i", "l" >>

\* [t for t in past_deficiencies if t != "nil"]: the comparison without lower().
RECURSIVE NotNilCaseSensitive(_)
NotNilCaseSensitive(texts) ==
    IF texts = << >> THEN << >>
    ELSE IF Head(texts) # Nil
         THEN << Head(texts) >> \o NotNilCaseSensitive(Tail(texts))
         ELSE NotNilCaseSensitive(Tail(texts))

\* [t for t in past_deficiencies if t.lower() != "nil"]
RECURSIVE NotNil(_)
NotNil(texts) ==
    IF texts = << >> THEN << >>
    ELSE IF Lower(Head(texts)) # Nil
         THEN << Head(texts) >> \o NotNil(Tail(texts))
         ELSE NotNil(Tail(texts))

\* " ".join([...])
CombinedText(past_deficiencies) == Join(NotNil(past_deficiencies), << " " >>)

\* Rake() of rake_nltk with its defaults, as main() uses it.
\* Character classes of wordpunct_tokenize (the pattern \w+|[^\w\s]+).
IsSpace(c) == c \in {" ", "\n"}
IsPunct(c) == c \in {"\"", ",", "."}
SameClass(c, d) == ~IsSpace(c) /\ ~IsSpace(d) /\ (IsPunct(c) <=> IsPunct(d))

\* The positions 1..n in ascending order.
Indices(n) == Tuple([i \in 1..n |-> i])

\* The end of the maximal run that starts at position i; joined[k] says that
\* position k continues the run of position k - 1.
RunEnd(joined, i) ==
    CHOOSE j \in i..Len(joined) :
        /\ \A k \in (i + 1)..j : joined[k]
        /\ j = Len(joined) \/ ~joined[j + 1]

\* The runs of list that start at the given positions.
Runs(list, starts, joined) ==
    Tuple([k \in 1..Len(starts) |-> SubSeq(list, starts[k], RunEnd(joined, starts[k]))])

LowerAll(tokens) == Tuple([k \in 1..Len(tokens) |-> Lower(tokens[k])])

\* wordpunct_tokenize, each token lower-cased: the maximal runs of word
\* characters and the maximal runs of punctuation, white space dropped.
Tokenize(text) ==
    LowerAll(Runs(text,
                  SelectSeq(Indices(Len(text)),
                            LAMBDA i : /\ ~IsSpace(text[i])
                                       /\ i = 1 \/ ~SameClass(text[i - 1], text[i])),
                  Tuple([k \in 1..Len(text) |->
                            k > 1 /\ SameClass(text[k - 1], text[k])])))

\* The English stop words of NLTK that can be spelled with the model's letters
\* and occur in its texts.
Stopwords == { << "a" >>, << "i" >>, << "a", "n" >>, << "i", "n" >>, << "i", "s" >> }

\* to_ignore: the stop words and the single punctuation characters.
ToIgnore(token) == token \in Stopwords \/ (Len(token) = 1 /\ IsPunct(token[1]))

\* _get_phrase_list_from_words: the maximal runs of tokens that are not
\* ignored, each run a phrase (a tuple of words); repeated phrases are kept.
PhraseList(tokens) ==
    Runs(tokens,
         SelectSeq(Indices(Len(tokens)),
                   LAMBDA i : /\ ~ToIgnore(tokens[i])
                              /\ i = 1 \/ ToIgnore(tokens[i - 1])),
         Tuple([k \in 1..Len(tokens) |->
                   k > 1 /\ ~ToIgnore(tokens[k - 1]) /\ ~ToIgnore(tokens[k])]))

RECURSIVE Sum(_)
Sum(numbers) == IF numbers = << >> THEN 0 ELSE Head(numbers) + Sum(Tail(numbers))

RECURSIVE Product(_)
Product(numbers) ==
    IF numbers = << >> THEN 1 ELSE Head(numbers) * Product(Tail(numbers))

Count(word, phrase) == Cardinality({i \in 1..Len(phrase) : phrase[i] = word})

\* frequency_dist[word]: the occurrences of the word in the phrase list.
Frequency(word, phrases) ==
    Sum([k \in 1..Len(phrases) |-> Count(word, phrases[k])])

\* degree[word]: the row sum of the co-occurrence graph; every occurrence of
\* the word in a phrase co-occurs with each word of that phrase.
Degree(word, phrases) ==
    Sum([k \in 1..Len(phrases) |-> Count(word, phrases[k]) * Len(phrases[k])])

\* The distinct words of the phrase list, in some order.
RECURSIVE Enumerate(_)
Enumerate(S) ==
    IF S = {} THEN << >>
    ELSE LET x == CHOOSE y \in S : TRUE IN << x >> \o Enumerate(S \ {x})

Words(phrases) ==
    Enumerate(UNION {{phrases[k][i] : i \in 1..Len(phrases[k])} : k \in 1..Len(phrases)})

\* A phrase's rank, the sum of degree/frequency over its words, times the
\* product of all frequencies (scale): an integer that orders phrases as the
\* quotients do.  words are the distinct words, frequency and degree their
\* tables.
Rank(phrase, words, frequency, degree, scale) ==
    Sum([i \in 1..Len(phrase) |->
            LET k == CHOOSE j \in 1..Len(words) : words[j] = phrase[i]
            IN  degree[k] * (scale \div frequency[k])])

\* The order of rank_list.sort(reverse=True) on (rank, phrase) tuples.
Before(x, y) ==
    \/ x.rank > y.rank
    \/ x.rank = y.rank /\ StrLess(y.phrase, x.phrase)

\* The elements of list, the one of place p at position p.
Placed(list, place) ==
    Tuple([p \in 1..Len(list) |-> list[CHOOSE i \in 1..Len(list) : place[i] = p]])

\* list.sort(reverse=True): an element's place is one more than the number
\* of elements that come before it; equal elements keep their order.
SortReverse(list) ==
    Placed(list,
           Tuple([i \in 1..Len(list) |->
                     1 + Cardinality({j \in 1..Len(list) :
                                         \/ j < i /\ list[j] = list[i]
                                         \/ Before(list[j], list[i])})]))

\* _build_ranklist: the (rank, phrase) tuples of the phrase list.
RankList(phrases, words, frequency, degree) ==
    Tuple([k \in 1..Len(phrases) |->
              [rank |-> Rank(phrases[k], words, frequency, degree, Product(frequency)),
               phrase |-> Join(phrases[k], << " " >>)]])

\* _build_frequency_dist and _build_word_co_occurance_graph, then the ranks.
RankWords(phrases, words) ==
    RankList(phrases, words,
             Tuple([k \in 1..Len(words) |-> Frequency(words[k], phrases)]),
             Tuple([k \in 1..Len(words) |-> Degree(words[k], phrases)]))

RankPhrases(phrases) == SortReverse(RankWords(phrases, Words(phrases)))

\* rake.extract_keywords_from_text(text); rake.get_ranked_phrases_with_scores()
RankedPhrases(text) == RankPhrases(PhraseList(Tokenize(text)))

\* The number of ranked phrases main() retains.
KeywordLimit == 10

\* [phrase for score, phrase in ranked_phrases]: the slice [:10] left out.
AllKeywords(ranked_phrases) ==
    Tuple([k \in 1..Len(ranked_phrases) |-> ranked_phrases[k].phrase])

\* [phrase for score, phrase in ranked_phrases[:10]]
TopKeywords(ranked_phrases) ==
    Tuple([k \in 1..(IF Len(ranked_phrases) < KeywordLimit
                     THEN Len(ranked_phrases) ELSE KeywordLimit) |->
              ranked_phrases[k].phrase])

\* filtered_df['Phrase'].str.lower().tolist()
AuthorityPhrases(filtered) ==
    Tuple([i \in 1..Len(filtered) |-> Lower(filtered[i].Phrase)])

\* The inner loop of the match: one row per authority phrase that contains
\* the lower-cased keyword.
RECURSIVE MatchKeyword(_, _)
MatchKeyword(kw, authority_phrases) ==
    IF authority_phrases = << >> THEN << >>
    ELSE IF Contains(Head(authority_phrases), Lower(kw))
         THEN << [Matched_Keyword |-> kw, Port_Phrase |-> Head(authority_phrases)] >>
                  \o MatchKeyword(kw, Tail(authority_phrases))
         ELSE MatchKeyword(kw, Tail(authority_phrases))

\* The nested loop that fills matched_table.
RECURSIVE MatchedTable(_, _)
MatchedTable(keywords, authority_phrases) ==
    IF keywords = << >> THEN << >>
    ELSE MatchKeyword(Head(keywords), authority_phrases)
             \o MatchedTable(Tail(keywords), authority_phrases)

\* ----------------------------------------------------- presentation layer

\* The slider's range and default: st.slider(..., 5, 20, 10).
SliderMin == 5
SliderMax == 20
SliderDefault == 10

\* filtered_df.head(top_n): the first rows, not the largest.
Head_n(rows, n) ==
    Tuple([i \in 1..(IF Len(rows) < n THEN Len(rows) ELSE n) |-> rows[i]])

\* filtered_df.nlargest(top_n, "TF-IDF Score"): the n rows with the largest
\* scores, in descending order of score; among equal scores the rows that
\* come first in the frame are taken first (keep='first').
NLargest(rows, n) ==
    Head_n(Placed(rows,
                  Tuple([i \in 1..Len(rows) |->
                            1 + Cardinality({j \in 1..Len(rows) :
                                \/ rows[j].TF_IDF_Score > rows[i].TF_IDF_Score
                                \/ /\ j < i
                                   /\ rows[j].TF_IDF_Score = rows[i].TF_IDF_Score})])),
           n)

\* num/den rounded to the nearest integer, ties to even: what the format
\* ":.2f" does to a value in hundredths.
RoundDiv(num, den) ==
    LET q == num \div den
        r == num - q * den
    IN  IF 2 * r < den THEN q
        ELSE IF 2 * r > den THEN q + 1
        ELSE IF q % 2 = 0 THEN q ELSE q + 1

Scores(rows) == [i \in 1..Len(rows) |-> rows[i].TF_IDF_Score]

MaxScore(rows) ==
    CHOOSE m \in {rows[i].TF_IDF_Score : i \in 1..Len(rows)} :
        \A i \in 1..Len(rows) : rows[i].TF_IDF_Score <= m

\* The three st.metric calls: the mean score and its difference from the
\* mean of the whole table, both formatted ":.2f" (kept in hundredths), the
\* number of rows, and the largest score.
Metrics(filtered, all) ==
    [average |-> RoundDiv(100 * Sum(Scores(filtered)), Len(filtered)),
     delta |-> RoundDiv(100 * (Sum(Scores(filtered)) * Len(all)
                                  - Sum(Scores(all)) * Len(filtered)),
                        Len(filtered) * Len(all)),
     count |-> Len(filtered),
     max |-> 100 * MaxScore(filtered)]

Digits == << "0", "1", "2", "3", "4", "5", "6", "7", "8", "9" >>

\* str() of a non-negative whole number.
RECURSIVE NatToStr(_)
NatToStr(n) ==
    IF n < 10 THEN << Digits[n + 1] >>
    ELSE NatToStr(n \div 10) \o << Digits[(n % 10) + 1] >>

\* A cell as to_csv writes it before quoting.
CellText(row, column) ==
    CASE column = "Authority" -> row.Authority
      [] column = "Phrase" -> row.Phrase
      [] column = "Date" -> NatToStr(row.Date)
      [] column = "TF-IDF Score" -> NatToStr(row.TF_IDF_Score)

RECURSIVE DoubleQuotes(_)
DoubleQuotes(text) ==
    IF text = << >> THEN << >>
    ELSE IF Head(text) = "\""
         THEN << "\"", "\"" >> \o DoubleQuotes(Tail(text))
         ELSE << Head(text) >> \o DoubleQuotes(Tail(text))

\* A field written as it stands, whatever it contains.
Unquoted(text) == text

\* csv.QUOTE_MINIMAL: a field holding the delimiter, the quote character or a
\* line break is enclosed in quotes, with its quotes doubled.
Quoted(text) ==
    IF \E i \in 1..Len(text) : text[i] \in {",", "\"", "\n"}
    THEN << "\"" >> \o DoubleQuotes(text) \o << "\"" >>
    ELSE text

CsvLine(fields) == Join([i \in 1..Len(fields) |-> Quoted(fields[i])], << "," >>) \o << "\n" >>

RECURSIVE Concat(_)
Concat(parts) == IF parts = << >> THEN << >> ELSE Head(parts) \o Concat(Tail(parts))

\* frame.to_csv(index=False): a header line of the column names, then one
\* line per row, in the frame's order, without the index.  A column name is
\* one symbol of the text.
ToCsv(cols, rows) ==
    CsvLine([c \in 1..Len(cols) |-> << cols[c] >>])
        \o Concat([i \in 1..Len(rows) |->
                      CsvLine([c \in 1..Len(cols) |-> CellText(rows[i], cols[c])])])

\* ------------------------------------------------------------------ state

VARIABLES
    authority_file,   \* the authority workbook on disk
    ship_file,        \* the ship workbook on disk
    authority_cache,  \* st.cache_data's entry for load_authority_data
    ship_cache,       \* st.cache_data's entry for load_ship_data
    authority_reads,  \* how often the authority workbook was read
    ship_reads,       \* how often the ship workbook was read
    session,          \* the widget values the framework keeps between passes
    page              \* what the last rendering pass computed and rendered

vars == << authority_file, ship_file, authority_cache, ship_cache,
           authority_reads, ship_reads, session, page >>

\* No widget has a value yet ((), None, 0: unset).
NoSession ==
    [date_range |-> << >>, selected_port |-> None, selected_ship |-> None,
     top_n |-> 0, search_term |-> None]

\* Nothing computed, nothing rendered.
BlankPage ==
    [status |-> "none", failed_line |-> 0, rendered |-> {},
     filtered_df |-> << >>, combined_text |-> None, top_keywords |-> << >>,
     matched_table |-> << >>, top_phrases |-> << >>, metrics |-> << >>,
     filtered_data |-> << >>, csv |-> None]

\* ------------------------------------------------------------------- main

Min(S) == CHOOSE m \in S : \A x \in S : m <= x
Max(S) == CHOOSE m \in S : \A x \in S : x <= m
Dates(df) == {df.rows[i].Date : i \in 1..Len(df.rows)}

\* st.selectbox: the session's value when it is one of the options, else the
\* first option, None when there are no options.
Selectbox(options, value) ==
    IF \E i \in 1..Len(options) : options[i] = value THEN value
    ELSE IF options = << >> THEN None ELSE options[1]

\* An exception leaves main() at the given line: the pass ends there.
Raise(r, line) ==
    [w |-> r.w, p |-> [r.p EXCEPT !.status = "failed", !.failed_line = line]]

Render(r, elements) == [r EXCEPT !.p.rendered = @ \cup elements]

\* Lines 131-218: the chart, the word cloud, the metrics, the searchable
\* table, the download button and the footer.
Columns(df, w, r0) ==
    LET top_n == IF w.top_n = 0 THEN SliderDefault ELSE w.top_n
        r1 == [Render(r0, {"slider"}) EXCEPT !.w.top_n = top_n]
        filtered_df == r0.p.filtered_df
    IN  IF ~HasColumn(df, "TF-IDF Score") THEN Raise(r1, 136)
        ELSE LET r2 == [r1 EXCEPT !.p.top_phrases = NLargest(filtered_df, top_n)]
             IN  IF ~HasColumn(df, "Phrase") THEN Raise(r2, 138)
                 ELSE LET search_term ==
                              IF w.search_term = None THEN << >> ELSE w.search_term
                          r3 == Render(r2, {"bar_chart", "word_cloud", "metrics",
                                            "search", "table", "download", "footer"})
                      IN  [r3 EXCEPT
                              !.w.search_term = search_term,
                              !.p.metrics = << Metrics(filtered_df, df.rows) >>,
                              !.p.filtered_data =
                                  IF search_term # << >>
                                  THEN SearchFilter(filtered_df, search_term)
                                  ELSE filtered_df,
                              !.p.csv = ToCsv(df.cols, filtered_df),
                              !.p.status = "done"]

\* Lines 108-128: the match of the keywords against the port's phrases.
ShipMatches(df, w, r1, matched_table) ==
    Columns(df, w,
            [Render(r1, IF matched_table # << >>
                        THEN {"Attention Required", "matched_table"}
                        ELSE {"No major overlaps found"})
                EXCEPT !.p.matched_table = matched_table])

\* Lines 102-108: the keywords, or the notice that there are none.
ShipKeywords(df, w, r0, selected_ship, combined_text, top_keywords) ==
    IF ~HasColumn(df, "Phrase")
    THEN Raise([Render(r0, {"ship_select",
                            IF top_keywords # << >> THEN "keywords"
                            ELSE "No relevant deficiencies found."})
                   EXCEPT !.w.selected_ship = selected_ship,
                          !.p.combined_text = combined_text,
                          !.p.top_keywords = top_keywords], 108)
    ELSE ShipMatches(df, w,
                     [Render(r0, {"ship_select",
                                  IF top_keywords # << >> THEN "keywords"
                                  ELSE "No relevant deficiencies found."})
                         EXCEPT !.w.selected_ship = selected_ship,
                                !.p.combined_text = combined_text,
                                !.p.top_keywords = top_keywords],
                     MatchedTable(top_keywords, AuthorityPhrases(r0.p.filtered_df)))

\* Lines 96-100: keyword extraction from the concatenated text.
ShipText(df, w, r0, selected_ship, combined_text) ==
    ShipKeywords(df, w, r0, selected_ship, combined_text,
                 TopKeywords(RankedPhrases(combined_text)))

\* Lines 92-94: the selected ship's deficiency texts, concatenated.
ShipDeficiencies(df, ship_df, w, r0, selected_ship) ==
    ShipText(df, w, r0, selected_ship,
             CombinedText(PastDeficiencies(ship_df.rows, selected_ship)))

\* Lines 89-128: keyword extraction for the selected ship and the match
\* against the port's phrases.
ShipSection(df, ship_df, w, r0) ==
    ShipDeficiencies(df, ship_df, w, r0, Selectbox(Ships(ship_df), w.selected_ship))

HasShipColumns(ship_df) ==
    HasColumn(ship_df, "Vessel Name") /\ HasColumn(ship_df, "Nature of deficiency")

\* The ship check entered without the test of line 88: a missing column is a
\* KeyError where it is first read.
ShipCheckUnguarded(df, ship_df, w, r0) ==
    IF HasShipColumns(ship_df) THEN ShipSection(df, ship_df, w, r0)
    ELSE Raise(r0, IF HasColumn(ship_df, "Vessel Name") THEN 93 ELSE 89)

\* Lines 87-128: the ship check, entered only when the ship table has both
\* of its columns.
ShipCheck(df, ship_df, w, r0) ==
    IF HasShipColumns(ship_df) THEN ShipSection(df, ship_df, w, r0)
    ELSE Columns(df, w, r0)

\* Lines 71-79: the date picker, shown only when the table has a Date
\* column; it starts at the table's first and last date.
DateInput(df, w, r0) ==
    IF HasColumn(df, "Date")
    THEN [Render(r0, {"date_input"}) EXCEPT
             !.w.date_range =
                 IF w.date_range = << >>
                 THEN << Min(Dates(df)), Max(Dates(df)) >>
                 ELSE w.date_range]
    ELSE r0

\* The rows whose date lies in the picked range.
RECURSIVE DateFilter(_, _)
DateFilter(rows, date_range) ==
    IF rows = << >> THEN << >>
    ELSE IF date_range[1] <= Head(rows).Date /\ Head(rows).Date <= date_range[2]
         THEN << Head(rows) >> \o DateFilter(Tail(rows), date_range)
         ELSE DateFilter(Tail(rows), date_range)

\* The sidebar with the picked date range applied to the filtered rows.
SidebarFilteringDates(df, ship_df, w, r0) ==
    LET r1 == DateInput(df, w, r0)
    IN  IF ~HasColumn(df, "Authority") THEN Raise(r1, 81)
        ELSE LET selected_port == Selectbox(Ports(df), w.selected_port)
                 by_port == AuthorityFilter(df.rows, selected_port)
                 r2 == [Render(r1, {"port_select"}) EXCEPT
                           !.w.selected_port = selected_port,
                           !.p.filtered_df =
                               IF HasColumn(df, "Date")
                               THEN DateFilter(by_port, r1.w.date_range)
                               ELSE by_port]
             IN  ShipCheck(df, ship_df, w, r2)

\* Lines 69-84: the sidebar filters.  The value of the date picker is used
\* nowhere; the rows are filtered by the selected port alone.
Sidebar(df, ship_df, w, r0) ==
    LET r1 == DateInput(df, w, r0)
    IN  IF ~HasColumn(df, "Authority") THEN Raise(r1, 81)
        ELSE LET selected_port == Selectbox(Ports(df), w.selected_port)
                 r2 == [Render(r1, {"port_select"}) EXCEPT
                           !.w.selected_port = selected_port,
                           !.p.filtered_df = AuthorityFilter(df.rows, selected_port)]
             IN  ShipCheck(df, ship_df, w, r2)

\* main() without the test of line 65: it goes on with whatever was loaded,
\* and None has no columns (line 71 for df, line 88 for ship_df).
MainWithoutLoadCheck(df, ship_df, w) ==
    LET r0 == [w |-> NoSession,
               p |-> [BlankPage EXCEPT !.rendered = {"title"} \cup df.shown \cup ship_df.shown]]
        r == Sidebar(df, ship_df, w, r0)
    IN  IF ~df.ok THEN Raise(r0, 71)
        ELSE IF ship_df.ok \/ r.p.failed_line = 81 THEN r
        ELSE Raise([w |-> [NoSession EXCEPT !.date_range = r.w.date_range,
                                            !.selected_port = r.w.selected_port],
                    p |-> [r0.p EXCEPT
                              !.rendered = r.p.rendered
                                  \cap ({"title", "date_input", "port_select"}
                                            \cup df.shown \cup ship_df.shown),
                              !.filtered_df = r.p.filtered_df]], 88)

\* main(): one rendering pass over the two loaded tables and the widget
\* values w of the session.  The result is the new widget state (a widget the
\* pass did not reach has none) and the page.
Main(df, ship_df, w) ==
    LET r0 == [w |-> NoSession,
               p |-> [BlankPage EXCEPT !.rendered = {"title"} \cup df.shown \cup ship_df.shown]]
    IN  IF ~df.ok \/ ~ship_df.ok
        THEN [r0 EXCEPT !.p.status = "halted"]
        ELSE Sidebar(df, ship_df, w, r0)

\* ---------------------------------------------------------------- actions

\* The end of a script run: what the loaders cached and what main() rendered
\* become the state of the session.
Finish(a, b, m) ==
    /\ authority_cache' = a.cache
    /\ ship_cache' = b.cache
    /\ authority_reads' = authority_reads + a.reads
    /\ ship_reads' = ship_reads + b.reads
    /\ session' = m.w
    /\ page' = m.p
    /\ UNCHANGED << authority_file, ship_file >>

Script(a, b, w) == Finish(a, b, Main(a.value, b.value, w))

\* One script run: both loaders are called, then main() renders.
Run(w) ==
    Script(load_authority_data(authority_cache, authority_file),
           load_ship_data(ship_cache, ship_file), w)

\* The page is opened or re-run with the widgets as they are.
Rerun == Run(session)

\* The user picks a date range within the table's dates.
SetDateRange ==
    /\ "date_input" \in page.rendered
    /\ \E lo \in Dates(authority_cache[1]) : \E hi \in Dates(authority_cache[1]) :
           /\ lo <= hi
           /\ Run([session EXCEPT !.date_range = << lo, hi >>])

\* The user picks a port authority from the select box.
SelectPort ==
    /\ "port_select" \in page.rendered
    /\ \E i \in 1..Len(Ports(authority_cache[1])) :
           Run([session EXCEPT !.selected_port = Ports(authority_cache[1])[i]])

\* The user picks a ship from the select box.
SelectShip ==
    /\ "ship_select" \in page.rendered
    /\ \E i \in 1..Len(Ships(ship_cache[1])) :
           Run([session EXCEPT !.selected_ship = Ships(ship_cache[1])[i]])

\* The slider positions the user moves to: the lowest three, the one above
\* them, the default and the highest.
SliderStops ==
    {n \in SliderMin..SliderMax :
        n <= SliderMin + 3 \/ n = SliderDefault \/ n = SliderMax}

\* The user moves the top-N slider.
SetTopN ==
    /\ "slider" \in page.rendered
    /\ \E n \in SliderStops : Run([session EXCEPT !.top_n = n])

\* The search terms the user types: nothing, a term with a dot, a term in
\* upper case.
SearchTerms == { << >>, << "a", ".", "b" >>, << "B" >> }

\* The user types into the search box.
SetSearch ==
    /\ "search" \in page.rendered
    /\ \E t \in SearchTerms : Run([session EXCEPT !.search_term = t])

Next == Rerun \/ SetDateRange \/ SelectPort \/ SelectShip \/ SetTopN \/ SetSearch

\* ----------------------------------------------------------- source files

K == << "K" >>
S == << "S" >>
KS == << "K", "S" >>
V == << "V" >>
W == << "W" >>

Workbook(cols, rows) == [readable |-> TRUE, cols |-> cols, rows |-> rows]

\* A workbook read_excel cannot read (missing, locked, not a workbook).
Unreadable == [readable |-> FALSE, cols |-> << >>, rows |-> << >>]

\* The authority tables of 1..n rows whose cells (authority, date, phrase,
\* score) are drawn from options.
AuthorityTables(options, n) ==
    UNION {{[i \in 1..k |-> AuthorityRecord(i - 1, c[i][1], c[i][2], c[i][3], c[i][4])] :
                c \in [1..k -> options]} : k \in 1..n}

\* The ship tables of 1..n rows whose cells (vessel, deficiency) are drawn
\* from options.
ShipTables(options, n) ==
    UNION {{[i \in 1..k |-> ShipRecord(i - 1, c[i][1], c[i][2])] :
                c \in [1..k -> options]} : k \in 1..n}

AuthorityWorkbooks(options, n) ==
    {Workbook(AuthorityColumns, rows) : rows \in AuthorityTables(options, n)}

ShipWorkbooks(options, n) ==
    {Workbook(ShipColumns, rows) : rows \in ShipTables(options, n)}

\* A small ship workbook: V with one real deficiency and one "nil", W with a
\* missing entry, and a row without a vessel name.
SomeShips ==
    Workbook(ShipColumns,
             << ShipRecord(0, W, NaN), ShipRecord(1, V, << "A", "b" >>),
                ShipRecord(2, NaN, << "b" >>), ShipRecord(3, V, Nil) >>)

\* A small authority workbook: two ports, two dates.
SomePorts ==
    Workbook(AuthorityColumns,
             << AuthorityRecord(0, S, 2, << "a", "B", "b" >>, 3),
                AuthorityRecord(1, K, 1, << "a", ".", "b" >>, 1),
                AuthorityRecord(2, S, 1, << "A", ".", "b" >>, 2) >>)

\* The session before the page is first opened.
InitWith(authority_files, ship_files) ==
    /\ authority_file \in authority_files
    /\ ship_file \in ship_files
    /\ authority_cache = << >>
    /\ ship_cache = << >>
    /\ authority_reads = 0
    /\ ship_reads = 0
    /\ session = NoSession
    /\ page = BlankPage

\* A ship workbook with one ship and one deficiency.
OneShip == Workbook(ShipColumns, << ShipRecord(0, V, << "A", "b" >>) >>)

\* The largest tables of the families below.
MaxRows == 3
MaxChartRows == 6
MaxDatedRows == 2

MaxShipRows == 2
MaxCsvRows == 2

\* Loading: each workbook is readable or not.
InitLoad == InitWith({SomePorts, Unreadable}, {SomeShips, Unreadable})
SpecLoad == InitLoad /\ [][Next]_vars

\* Filtering: tables over three authorities, one the prefix of another.
FilterCells == {<< a, 1, << "a", "b" >>, 1 >> : a \in {K, S, KS}}
InitFilter == InitWith(AuthorityWorkbooks(FilterCells, MaxRows), {OneShip})
SpecFilter == InitFilter /\ [][Next]_vars

\* The chart: tables of one port with more rows than the slider's minimum,
\* scores repeated.
ChartCells == {<< K, 1, << "a", "b" >>, s >> : s \in {1, 2}}
InitChart == InitWith(AuthorityWorkbooks(ChartCells, MaxChartRows), {OneShip})
SpecChart == InitChart /\ [][Next]_vars

\* The date picker: tables of one port over two dates and two scores.
DatedCells == {<< K, d, << "a", "b" >>, s >> : d \in {1, 2}, s \in {1, 2}}
InitDates == InitWith(AuthorityWorkbooks(DatedCells, MaxDatedRows), {OneShip})
SpecDates == InitDates /\ [][Next]_vars

\* The sub-sequences of a tuple of column names.
SubSeqs(cols) ==
    {SelectSeq(cols, LAMBDA c : c \in keep) : keep \in SUBSET {cols[i] : i \in 1..Len(cols)}}

\* Columns: each workbook with any of its columns missing.
InitColumns ==
    InitWith({Workbook(cols, SomePorts.rows) : cols \in SubSeqs(AuthorityColumns)},
             {Workbook(cols, SomeShips.rows) : cols \in SubSeqs(ShipColumns)})
SpecColumns == InitColumns /\ [][Next]_vars

\* A deficiency text of eleven phrases: ten times "b", then "ab".
ManyPhrases ==
    << "b", ".", "b", ".", "b", ".", "b", ".", "b", ".", "b", ".", "b", ".",
       "b", ".", "b", ".", "b", ".", "a", "b" >>

\* Matching: ship V with missing, "nil", "NIL" and many-phrase entries, ship W
\* with a two-word phrase; a port with a phrase in mixed case and one no
\* keyword occurs in, and a port with a two-word phrase.
ShipCells ==
    {<< V, NaN >>, << V, Nil >>, << V, << "N", "I", "L" >> >>, << V, ManyPhrases >>,
     << W, << "A", "b", " ", "b" >> >>}
MatchPorts ==
    {Workbook(AuthorityColumns,
              << AuthorityRecord(0, K, 1, << "a", "B", "b" >>, 1),
                 AuthorityRecord(1, K, 1, << "A" >>, 2) >>),
     Workbook(AuthorityColumns,
              << AuthorityRecord(0, K, 1, << "A", "b", " ", "B" >>, 1) >>)}
InitMatch == InitWith(MatchPorts, ShipWorkbooks(ShipCells, MaxShipRows))
SpecMatch == InitMatch /\ [][Next]_vars

\* Export: phrases with a comma, with quotes and with a line break, a score
\* of two digits, two ports, two dates.
CsvCells ==
    {<< K, 1, p, 12 >> : p \in {<< "a", ",", "b" >>, << "\"", "a", "\"" >>,
                                << "a", "\n", "b" >>}}
        \cup {<< S, 1, << "b" >>, 1 >>, << K, 2, << "a", ".", "b" >>, 1 >>}
InitCsv == InitWith(AuthorityWorkbooks(CsvCells, MaxCsvRows), {OneShip})
SpecCsv == InitCsv /\ [][Next]_vars

\* ----------------------------------------------------------------- claims

Outputs(p) == [p EXCEPT !.status = "none", !.failed_line = 0, !.rendered = {}]

\* C3: when the authority workbook or the ship workbook cannot be loaded, the
\* pass shows the loader's error and halts at line 66: it ends neither done
\* nor with an exception, renders nothing but the title and the errors,
\* leaves every widget without a value and computes no filter, keyword,
\* match, chart, metric, table or export.
LoadFailureHalts ==
    (page.status # "none" /\ (~authority_file.readable \/ ~ship_file.readable)) =>
        /\ page.status = "halted"
        /\ ~authority_file.readable => "Error loading authority data" \in page.rendered
        /\ ~ship_file.readable => "Error loading ship data" \in page.rendered
        /\ page.rendered \subseteq
               {"title", "Error loading authority data", "Error loading ship data"}
        /\ session = NoSession
        /\ Outputs(page) = BlankPage

\* A pass that halted on the ship workbook alone, the authority table loaded.
LoadFailureWitness ==
    /\ page.status = "halted"
    /\ authority_file.readable /\ ~ship_file.readable
    /\ authority_cache # << >> /\ authority_cache[1].ok
    /\ "Error loading ship data" \in page.rendered

\* C8: in a session each workbook is read at most once; once a loader's cache
\* is populated no later pass reads the workbook again, and no pass changes
\* the cached entry.
ReadAtMostOnce ==
    [][/\ authority_reads' <= 1
       /\ ship_reads' <= 1
       /\ authority_cache # << >> =>
              authority_cache' = authority_cache /\ authority_reads' = authority_reads
       /\ ship_cache # << >> =>
              ship_cache' = ship_cache /\ ship_reads' = ship_reads]_vars

\* A later pass of the session (the slider was moved, the ship changed) that
\* rendered the whole page from the cached tables.
ReadAtMostOnceWitness ==
    /\ page.status = "done"
    /\ session.top_n # SliderDefault
    /\ session.selected_ship = W
    /\ authority_reads = 1 /\ ship_reads = 1
    /\ authority_cache = << ReadExcel(authority_file, "Error loading authority data") >>

\* C1: the authority filter returns exactly the rows of the table whose
\* Authority equals the selected authority: every returned row is a row of
\* the table with that authority, every such row of the table is returned,
\* and the rows come in the table's order, each once.
FilterExact ==
    "port_select" \in page.rendered =>
        LET df == authority_cache[1].rows
            f == page.filtered_df
        IN  /\ \E i \in 1..Len(df) : df[i].Authority = session.selected_port
            /\ \A i \in 1..Len(f) :
                   /\ f[i].Authority = session.selected_port
                   /\ \E j \in 1..Len(df) : df[j] = f[i]
            /\ \A j \in 1..Len(df) :
                   df[j].Authority = session.selected_port =>
                       \E i \in 1..Len(f) : f[i] = df[j]
            /\ \A i \in 1..Len(f) : \A k \in 1..Len(f) :
                   i < k => f[i].idx < f[k].idx

\* Port K selected in a table that also holds a KS row and whose K rows are
\* not adjacent.
FilterWitness ==
    /\ page.status = "done"
    /\ session.selected_port = K
    /\ Len(page.filtered_df) = 2
    /\ Len(authority_cache[1].rows) = 3
    /\ authority_cache[1].rows[2].Authority = KS

\* C5: for every slider value n in 5..20 the bar chart gets exactly
\* min(n, number of filtered rows) rows of the filtered subset, none of the
\* rows left out has a higher score than a row shown, and the rows shown are
\* in descending order of score.
ChartShowsTopN ==
    (page.status = "done" \/ page.failed_line = 138) =>
        LET f == page.filtered_df
            t == page.top_phrases
            n == session.top_n
        IN  /\ n \in SliderMin..SliderMax
            /\ Len(t) = (IF n < Len(f) THEN n ELSE Len(f))
            /\ \A i \in 1..Len(t) : \E j \in 1..Len(f) : f[j] = t[i]
            /\ \A i \in 1..Len(t) : \A k \in 1..Len(t) :
                   i < k => /\ t[i].idx # t[k].idx
                            /\ t[i].TF_IDF_Score >= t[k].TF_IDF_Score
            /\ \A j \in 1..Len(f) :
                   (\A i \in 1..Len(t) : t[i] # f[j]) =>
                       \A i \in 1..Len(t) : t[i].TF_IDF_Score >= f[j].TF_IDF_Score

\* The slider at 5 over six filtered rows with both scores among the rows
\* shown and the first row of the table not the largest.
ChartWitness ==
    /\ page.status = "done"
    /\ session.top_n = 5
    /\ Len(page.filtered_df) = 6
    /\ Len(page.top_phrases) = 5
    /\ page.top_phrases[1].TF_IDF_Score > page.top_phrases[5].TF_IDF_Score
    /\ page.filtered_df[1].TF_IDF_Score < page.top_phrases[1].TF_IDF_Score

\* C10: the picked date range changes nothing: a pass that differs from the
\* one before it at most in the date range (same tables, port, ship, search
\* term and top-N) computes and renders the same filtered subset, keywords,
\* match table, chart rows, metrics, data view and CSV export.
DateRangeIgnored ==
    [][(/\ page.status = "done"
        /\ page'.status = "done"
        /\ [session' EXCEPT !.date_range = session.date_range] = session)
           => page' = page]_vars

\* A completed pass with a picked range that excludes rows of the filtered
\* subset.
DateRangeWitness ==
    /\ page.status = "done"
    /\ session.date_range = << 2, 2 >>
    /\ \E i \in 1..Len(page.filtered_df) : page.filtered_df[i].Date = 1
    /\ \E i \in 1..Len(page.filtered_df) : page.filtered_df[i].Date = 2

RequiredAuthorityColumns(df) ==
    HasColumn(df, "Authority") /\ HasColumn(df, "Phrase") /\ HasColumn(df, "TF-IDF Score")

\* C9 as stated: without Date the pass completes and skips the date picker;
\* without any one of Authority, Phrase, TF-IDF Score, Vessel Name, Nature
\* of deficiency the pass fails with an unhandled failure.
MissingRequiredColumnFails ==
    page.status # "none" =>
        /\ (RequiredAuthorityColumns(authority_file) /\ HasShipColumns(ship_file)
                /\ ~HasColumn(authority_file, "Date")) =>
               (page.status = "done" /\ "date_input" \notin page.rendered)
        /\ ~(RequiredAuthorityColumns(authority_file) /\ HasShipColumns(ship_file)) =>
               page.status = "failed"

\* C9 amended: without Date the pass completes and skips the date picker;
\* without Vessel Name or Nature of deficiency it completes too and skips
\* the ship check; without Authority, Phrase or TF-IDF Score it fails with
\* an unhandled failure at the line that first reads the missing column.
MissingColumns ==
    page.status # "none" =>
        /\ RequiredAuthorityColumns(authority_file) =>
               /\ page.status = "done"
               /\ "date_input" \in page.rendered <=> HasColumn(authority_file, "Date")
               /\ "ship_select" \in page.rendered <=> HasShipColumns(ship_file)
        /\ ~RequiredAuthorityColumns(authority_file) =>
               /\ page.status = "failed"
               /\ page.failed_line =
                      IF ~HasColumn(authority_file, "Authority") THEN 81
                      ELSE IF ~HasColumn(authority_file, "Phrase")
                                /\ HasShipColumns(ship_file) THEN 108
                      ELSE IF ~HasColumn(authority_file, "TF-IDF Score") THEN 136
                      ELSE 138

\* A completed pass without the Date column and without the Vessel Name
\* column.
MissingColumnsWitness ==
    /\ page.status = "done"
    /\ ~HasColumn(authority_file, "Date")
    /\ ~HasColumn(ship_file, "Vessel Name")
    /\ "ship_select" \notin page.rendered
    /\ page.csv # None

\* C4 as stated: with a search string the data view shows exactly the rows
\* of the filtered subset whose phrase contains the string as a substring,
\* ignoring case; with none it shows the whole filtered subset.
SearchIsSubstring ==
    page.status = "done" =>
        page.filtered_data =
            IF session.search_term = << >> THEN page.filtered_df
            ELSE SelectSeq(page.filtered_df,
                           LAMBDA row : Contains(Lower(row.Phrase),
                                                 Lower(session.search_term)))

\* C2: the match table holds exactly the pairs (keyword, port phrase) of a
\* retained keyword (one of the first 10 of the ranked list) and a row of the
\* authority-filtered subset whose lower-cased phrase contains the
\* lower-cased keyword; the port phrase is recorded in lower case.
MatchTableExact ==
    ("ship_select" \in page.rendered /\ page.failed_line # 108) =>
        LET ranked == RankedPhrases(page.combined_text)
            first == IF Len(ranked) < KeywordLimit THEN Len(ranked) ELSE KeywordLimit
            retained == {ranked[k].phrase : k \in 1..first}
            f == page.filtered_df
            m == page.matched_table
        IN  /\ Len(page.top_keywords) = first
            /\ {page.top_keywords[k] : k \in 1..first} = retained
            /\ {<< m[k].Matched_Keyword, m[k].Port_Phrase >> : k \in 1..Len(m)}
                   = {pair \in {<< kw, Lower(f[i].Phrase) >> :
                                    kw \in retained, i \in 1..Len(f)} :
                          Contains(pair[2], Lower(pair[1]))}

\* More than ten ranked phrases, the eleventh of which occurs in a port
\* phrase and is not retained; a match recorded, and a port phrase that
\* holds no keyword.
MatchTableWitness ==
    LET ranked == RankedPhrases(page.combined_text)
        f == page.filtered_df
    IN  /\ page.status = "done"
        /\ Len(ranked) > KeywordLimit
        /\ page.matched_table # << >>
        /\ \A k \in 1..KeywordLimit : ranked[k].phrase # ranked[Len(ranked)].phrase
        /\ \E i \in 1..Len(f) : Contains(Lower(f[i].Phrase), ranked[Len(ranked)].phrase)
        /\ \E i \in 1..Len(f) : \A k \in 1..Len(page.matched_table) :
               page.matched_table[k].Port_Phrase # Lower(f[i].Phrase)

\* C6: when every deficiency entry of the selected vessel is "nil" in some
\* letter case or missing, the concatenated text is empty, no keyword is
\* extracted, the sidebar says that no relevant deficiencies were found and
\* the match table is empty.
NoDeficiencies ==
    "ship_select" \in page.rendered =>
        LET rows == ship_cache[1].rows
        IN  (\A i \in 1..Len(rows) :
                 rows[i].Vessel_Name = session.selected_ship =>
                     \/ rows[i].Nature_of_deficiency = NaN
                     \/ Lower(rows[i].Nature_of_deficiency) = Nil)
            => /\ page.combined_text = << >>
               /\ page.top_keywords = << >>
               /\ "No relevant deficiencies found." \in page.rendered
               /\ "keywords" \notin page.rendered
               /\ page.matched_table = << >>
               /\ "matched_table" \notin page.rendered

\* Vessel V selected with two entries, one "NIL" and one "nil" or missing.
NoDeficienciesWitness ==
    /\ page.status = "done"
    /\ session.selected_ship = V
    /\ Len(ship_cache[1].rows) = 2
    /\ \A i \in 1..2 : ship_cache[1].rows[i].Vessel_Name = V
    /\ ship_cache[1].rows[1].Nature_of_deficiency = << "N", "I", "L" >>
    /\ ship_cache[1].rows[2].Nature_of_deficiency \in {NaN, Nil}
    /\ "No relevant deficiencies found." \in page.rendered

\* Reading a CSV text back: records end at a line break and fields at a
\* comma outside quotes; a field that starts with a quote runs to its closing
\* quote, a doubled quote inside it standing for one.
RECURSIVE ReadCsv(_, _, _, _, _)
ReadCsv(text, quoted, field, record, records) ==
    IF text = << >>
    THEN IF field = << >> /\ record = << >> THEN records
         ELSE Append(records, Append(record, field))
    ELSE LET c == Head(text)
             rest == Tail(text)
         IN  IF quoted
             THEN IF c = "\"" /\ rest # << >> /\ Head(rest) = "\""
                  THEN ReadCsv(Tail(rest), TRUE, Append(field, "\""), record, records)
                  ELSE IF c = "\""
                       THEN ReadCsv(rest, FALSE, field, record, records)
                       ELSE ReadCsv(rest, TRUE, Append(field, c), record, records)
             ELSE IF c = "\"" /\ field = << >>
                  THEN ReadCsv(rest, TRUE, field, record, records)
                  ELSE IF c = ","
                       THEN ReadCsv(rest, FALSE, << >>, Append(record, field), records)
                       ELSE IF c = "\n"
                            THEN ReadCsv(rest, FALSE, << >>, << >>,
                                         Append(records, Append(record, field)))
                            ELSE ReadCsv(rest, FALSE, Append(field, c), record, records)

\* int() of a string of digits; -1 for anything else.
RECURSIVE StrToNat(_, _)
StrToNat(text, acc) ==
    IF text = << >> THEN acc
    ELSE IF \E d \in 0..9 : Digits[d + 1] = Head(text)
         THEN StrToNat(Tail(text),
                       10 * acc + (CHOOSE d \in 0..9 : Digits[d + 1] = Head(text)))
         ELSE -1

\* A field read back under the column's type: Date and TF-IDF Score as
\* numbers, Authority and Phrase as text.
TypedField(column, field) ==
    IF column \in {"Date", "TF-IDF Score"}
    THEN (IF field = << >> THEN -1 ELSE StrToNat(field, 0))
    ELSE field

ColumnNames(header) ==
    Tuple([c \in 1..Len(header) |-> IF Len(header[c]) = 1 THEN header[c][1] ELSE "?"])

TypedRows(records, cols) ==
    [cols |-> cols,
     rows |-> Tuple([i \in 1..(Len(records) - 1) |->
                        Tuple([c \in 1..Len(records[i + 1]) |->
                                  TypedField(IF c <= Len(cols) THEN cols[c] ELSE "?",
                                             records[i + 1][c])])])]

TypedTable(records) ==
    TypedRows(records, ColumnNames(IF records = << >> THEN << >> ELSE records[1]))

\* The table a CSV text holds: the header's column names and the typed rows.
ParseCsv(text) == TypedTable(ReadCsv(text, FALSE, << >>, << >>, << >>))

CellValue(row, column) ==
    CASE column = "Authority" -> row.Authority
      [] column = "Phrase" -> row.Phrase
      [] column = "Date" -> row.Date
      [] column = "TF-IDF Score" -> row.TF_IDF_Score

====
